---- MODULE Spec2Model ----
(***************************************************************************)
(* Udemy course recommendation system: the scoring and recommendation      *)
(* engine of recommendation_system.py and the table it reads, which        *)
(* run_data_import.py fills.                                               *)
(*                                                                         *)
(* A DataFrame is a sequence of rows; a row is a record whose fields are   *)
(* the columns plus "index", the row's index label (pandas keeps labels    *)
(* and positions apart: .index / .iloc).  Positions are 1-based here and   *)
(* 0-based in Python, so label k of a RangeIndex sits at position k + 1,   *)
(* and enumerate() counts from 1.                                          *)
(*                                                                         *)
(* float64 values are carried exactly, as a fraction [num, den] in lowest   *)
(* terms; NaN, +inf and -inf are the fractions 0/0, 1/0 and -1/0.          *)
(***************************************************************************)
EXTENDS Integers, Sequences, FiniteSets, TLC

VARIABLES
    table,       \* rows of the udemy_courses table in PostgreSQL
    data_cache,  \* st.cache_data entries of load_data(): <<>> or <<DataFrame>>
    rec_cache,   \* st.cache_resource entries of build_recommender(): <<>> or <<pair>>
    importer,    \* position of run_data_import.py in its upload step
    pc,          \* position of the running script / of the function under call
    df_raw,      \* module global df_raw
    df,          \* module global df
    df_rec,      \* module global df_rec
    cosine_sim,  \* module global cosine_sim
    call,        \* arguments of the call being made
    ret,         \* value the call returned
    shown        \* what the run rendered: st.error, st.warning, st.dataframe

vars ==
    <<table, data_cache, rec_cache, importer, pc, df_raw, df, df_rec, cosine_sim,
      call, ret, shown>>

----------------------------------------------------------------------------
(* Bounds of the model                                                     *)

MaxReviewCount == 120
MaxRows == 3
MaxN == 2
MaxMinEvidence == 2

----------------------------------------------------------------------------
(* float64 arithmetic, exact                                               *)

\* non-finite values have den = 0
NaN == [num |-> 0, den |-> 0]
PosInf == [num |-> 1, den |-> 0]
NegInf == [num |-> -1, den |-> 0]

Abs(x) == IF x < 0 THEN -x ELSE x

RECURSIVE GCD(_, _)
GCD(a, b) == IF b = 0 THEN a ELSE GCD(b, a % b)

Frac(n, d) ==
    LET s == IF d < 0 THEN -1 ELSE 1
        g == GCD(Abs(n), Abs(d))
    IN  [num |-> (s * n) \div g, den |-> (s * d) \div g]

Num(k) == [num |-> k, den |-> 1]

IsFinite(x) == x.den # 0

Sign(x) == IF x.num > 0 THEN 1 ELSE IF x.num < 0 THEN -1 ELSE 0

Inf(s) == IF s > 0 THEN PosInf ELSE NegInf

FAdd(x, y) ==
    IF x = NaN \/ y = NaN THEN NaN
    ELSE IF ~IsFinite(x) /\ ~IsFinite(y) THEN (IF x = y THEN x ELSE NaN)
    ELSE IF ~IsFinite(x) THEN x
    ELSE IF ~IsFinite(y) THEN y
    ELSE Frac(x.num * y.den + y.num * x.den, x.den * y.den)

FMul(x, y) ==
    IF x = NaN \/ y = NaN THEN NaN
    ELSE IF ~IsFinite(x) \/ ~IsFinite(y)
         THEN (IF Sign(x) * Sign(y) = 0 THEN NaN ELSE Inf(Sign(x) * Sign(y)))
    ELSE Frac(x.num * y.num, x.den * y.den)

\* numpy/pandas division: x/0 is +-inf, 0/0 is NaN, no exception
FDiv(x, y) ==
    IF x = NaN \/ y = NaN THEN NaN
    ELSE IF ~IsFinite(x) /\ ~IsFinite(y) THEN NaN
    ELSE IF ~IsFinite(x) THEN Inf(Sign(x) * (IF Sign(y) < 0 THEN -1 ELSE 1))
    ELSE IF ~IsFinite(y) THEN Num(0)
    ELSE IF y.num = 0 THEN (IF x.num = 0 THEN NaN ELSE Inf(Sign(x)))
    ELSE Frac(x.num * y.den, x.den * y.num)

\* a/b < c/d for a, c >= 0 and b, d > 0, by continued fractions: no product
\* of two numerators or denominators is formed
RECURSIVE FracLess(_, _, _, _)
FracLess(a, b, c, d) ==
    IF a \div b # c \div d THEN a \div b < c \div d
    ELSE IF c % d = 0 THEN FALSE
    ELSE IF a % b = 0 THEN TRUE
    ELSE FracLess(d, c % d, b, a % b)

\* x < y on finite values
FiniteLess(x, y) ==
    IF Sign(x) # Sign(y) THEN Sign(x) < Sign(y)
    ELSE IF Sign(x) = 0 THEN FALSE
    ELSE IF Sign(x) > 0 THEN FracLess(x.num, x.den, y.num, y.den)
    ELSE FracLess(-y.num, y.den, -x.num, x.den)

\* x >= y on float64: every comparison with NaN is False
FGeq(x, y) ==
    IF x = NaN \/ y = NaN THEN FALSE
    ELSE IF x = PosInf \/ y = NegInf THEN TRUE
    ELSE IF x = NegInf \/ y = PosInf THEN FALSE
    ELSE ~FiniteLess(x, y)

\* x > y on float64
FGt(x, y) == FGeq(x, y) /\ x # y

----------------------------------------------------------------------------
(* Series helpers                                                          *)

Column(d, col) == [i \in 1..Len(d) |-> d[i][col]]

RECURSIVE SumTo(_, _)
SumTo(s, k) == IF k = 0 THEN Num(0) ELSE FAdd(SumTo(s, k - 1), s[k])

\* Series.mean(): NaN for an empty Series
Mean(s) == IF Len(s) = 0 THEN NaN ELSE FDiv(SumTo(s, Len(s)), Num(Len(s)))

----------------------------------------------------------------------------
(* calculate_bayesian_average, calculate_confidence_level                  *)

DefaultMinReviews == 10

calculate_bayesian_average(d, score_col, count_col, min_reviews) ==
    LET C == Mean(Column(d, score_col))
        m == Num(min_reviews)
    IN  [i \in 1..Len(d) |->
            LET v == Num(d[i][count_col])
                R == d[i][score_col]
            IN  FAdd(FMul(FDiv(v, FAdd(v, m)), R), FMul(FDiv(m, FAdd(v, m)), C))]

HighReviews == 100
MediumReviews == 20
LowReviews == 5

\* the tiers with every threshold compared by > where the code has >=
calculate_confidence_level_strict(num_reviews) ==
    IF num_reviews > HighReviews THEN "High"
    ELSE IF num_reviews > MediumReviews THEN "Medium"
    ELSE IF num_reviews > LowReviews THEN "Low"
    ELSE "Very Low"

calculate_confidence_level(num_reviews) ==
    IF num_reviews >= HighReviews THEN "High"
    ELSE IF num_reviews >= MediumReviews THEN "Medium"
    ELSE IF num_reviews >= LowReviews THEN "Low"
    ELSE "Very Low"

----------------------------------------------------------------------------
(* Rows of udemy_courses and load_data                                     *)
(* Columns the engine only copies (url, price, level, ...) are carried     *)
(* through untouched by every function and are left out.                   *)

\* a text cell is a sequence of words; a NULL cell is <<NULL>>
NULL == "NULL"

CourseIdAt(i) == 100 + i

RawRow(id, title, subject, subs, reviews, rate, pop, qual) ==
    [course_id |-> id, course_title |-> title, subject |-> subject,
     num_subscribers |-> subs, num_reviews |-> reviews, review_rate |-> rate,
     popularity_score |-> pop, quality_score |-> qual]

\* pd.read_sql_query: the rows in table order under a fresh RangeIndex
read_sql_query(t) == [i \in 1..Len(t) |-> [index |-> i - 1] @@ t[i]]

----------------------------------------------------------------------------
(* enhance_dataframe                                                       *)

SuspiciousRate == Frac(99, 100)
SuspiciousSubscribers == 50

HasColumn(d, col) == Len(d) > 0 /\ col \in DOMAIN d[1]

engagement_per_subscriber(row) ==
    IF row.num_subscribers > 0
    THEN FDiv(Num(row.num_reviews), Num(row.num_subscribers))
    ELSE Num(0)

is_suspicious(row) ==
    FGeq(row.review_rate, SuspiciousRate) /\ row.num_subscribers < SuspiciousSubscribers

enhance_dataframe(d) ==
    LET bp == calculate_bayesian_average(d, "popularity_score", "num_reviews",
                                         DefaultMinReviews)
        bq == calculate_bayesian_average(d, "quality_score", "num_reviews",
                                         DefaultMinReviews)
    IN  [i \in 1..Len(d) |->
            [bayesian_popularity |-> bp[i],
             confidence_level |-> calculate_confidence_level(d[i].num_reviews),
             engagement_per_subscriber |-> engagement_per_subscriber(d[i]),
             is_suspicious |-> is_suspicious(d[i])]
            @@ (IF HasColumn(d, "quality_score")
                THEN [bayesian_quality |-> bq[i]] ELSE <<>>)
            @@ d[i]]

\* the argument as it would be left if the columns were assigned to it
enhance_dataframe_inplace(d) == enhance_dataframe(d)

(* The DataFrame passed to enhance_dataframe, after the call: the function *)
(* begins with df = df.copy() and assigns every column to the copy.        *)
enhance_dataframe_arg(d) == d

----------------------------------------------------------------------------
(* build_recommender: TfidfVectorizer(stop_words='english',                *)
(* max_features=500).fit_transform, then cosine_similarity                 *)

fillna(cell) == IF cell = <<NULL>> THEN <<>> ELSE cell

\* df['course_title'].fillna('') + ' ' + df['subject'].fillna('')
content(row) == fillna(row.course_title) \o fillna(row.subject)

\* str.lower on the words of the model
lowercase(w) ==
    CASE w = "Python" -> "python"
      [] w = "Web" -> "web"
      [] w = "The" -> "the"
      [] w = "C" -> "c"
      [] OTHER -> w

\* words the token pattern \b\w\w+\b does not match: fewer than two characters
OneCharWords == {"c"}

\* sklearn's ENGLISH_STOP_WORDS, the members among the words of the model
EnglishStopWords == {"the"}

RECURSIVE analyze(_)
analyze(doc) ==
    IF doc = <<>> THEN <<>>
    ELSE LET w == lowercase(Head(doc))
         IN  IF w \in OneCharWords \/ w \in EnglishStopWords
             THEN analyze(Tail(doc))
             ELSE <<w>> \o analyze(Tail(doc))

\* term frequency of t in a token sequence
tf(tokens, t) == Cardinality({k \in 1..Len(tokens) : tokens[k] = t})

MaxFeatures == 500

\* all terms of the corpus, cut to the max_features most frequent ones
vocabulary(docs) ==
    LET all == UNION {{docs[i][k] : k \in 1..Len(docs[i])} : i \in 1..Len(docs)}
        total(t) == SumTo([i \in 1..Len(docs) |-> Num(tf(docs[i], t))], Len(docs)).num
    IN  IF Cardinality(all) <= MaxFeatures THEN all
        ELSE CHOOSE V \in SUBSET all :
                /\ Cardinality(V) = MaxFeatures
                /\ \A t \in V, u \in all \ V : total(t) >= total(u)

\* 16 * ln(k), rounded
Ln16 == <<0, 11, 18, 22, 26, 29, 31, 33>>

\* smooth idf, ln((1 + n) / (1 + df)) + 1, in sixteenths
idf(docs, t) ==
    LET n == Len(docs)
        dfreq == Cardinality({i \in 1..n : tf(docs[i], t) > 0})
    IN  16 + Ln16[1 + n] - Ln16[1 + dfreq]

(* The matrix entry for rows a and b is the cosine of their tf-idf vectors. *)
(* The entry is carried as the SQUARE of the cosine, an exact fraction:    *)
(* the weights are non-negative, so every cosine lies in [0, 1], where     *)
(* squaring keeps order and equality and fixes 0 and 1.  A row without a   *)
(* vocabulary term is the zero vector, which normalize() leaves zero, so   *)
(* all its entries, the diagonal one included, are 0.                      *)
cosine_similarity(docs) ==
    LET V == vocabulary(docs)
        weight == [t \in V |-> idf(docs, t)]
        tfidf_matrix == [i \in 1..Len(docs) |-> [t \in V |-> tf(docs[i], t) * weight[t]]]
        dot(a, b) ==
            LET RECURSIVE over(_)
                over(T) ==
                    IF T = {} THEN 0
                    ELSE LET t == CHOOSE x \in T : TRUE
                         IN  a[t] * b[t] + over(T \ {t})
            IN  over(V)
        norm2 == [i \in 1..Len(docs) |-> dot(tfidf_matrix[i], tfidf_matrix[i])]
    IN  [i \in 1..Len(docs) |-> [j \in 1..Len(docs) |->
            IF norm2[i] = 0 \/ norm2[j] = 0 THEN Num(0)
            ELSE LET d == dot(tfidf_matrix[i], tfidf_matrix[j])
                 IN  Frac(d * d, norm2[i] * norm2[j])]]

\* the ValueError of TfidfVectorizer.fit_transform on a corpus without terms
EmptyVocabulary ==
    "ValueError: empty vocabulary; perhaps the documents only contain stop words"

\* ok = FALSE: fit_transform raised ValueError (empty vocabulary)
build_recommender(d) ==
    LET docs == [i \in 1..Len(d) |-> analyze(content(d[i]))]
        out == [i \in 1..Len(d) |-> [content |-> content(d[i])] @@ d[i]]
    IN  IF vocabulary(docs) = {}
        THEN [ok |-> FALSE, cosine_sim |-> <<>>, df |-> <<>>]
        ELSE [ok |-> TRUE, cosine_sim |-> cosine_similarity(docs), df |-> out]

(* The DataFrame passed to build_recommender, after the call: df is        *)
(* _df.copy() and the content column is assigned to the copy.              *)
build_recommender_arg(d) == d

----------------------------------------------------------------------------
(* get_recommendations                                                     *)

enumerate(row) == [j \in 1..Len(row) |-> <<j, row[j]>>]

\* the scores sorted by similarity, largest first; equal keys change places
RECURSIVE sorted_unstable(_)
sorted_unstable(s) ==
    IF s = <<>> THEN <<>>
    ELSE LET x == s[Len(s)]
             acc == sorted_unstable(SubSeq(s, 1, Len(s) - 1))
             p == Cardinality({i \in 1..Len(acc) : FGt(acc[i][2], x[2])})
         IN  SubSeq(acc, 1, p) \o <<x>> \o SubSeq(acc, p + 1, Len(acc))

\* sorted(sim_scores, key=lambda x: x[1], reverse=True): a stable sort, so
\* equal keys keep the order they had
RECURSIVE sorted(_)
sorted(s) ==
    IF s = <<>> THEN <<>>
    ELSE LET x == s[Len(s)]
             acc == sorted(SubSeq(s, 1, Len(s) - 1))
             p == Cardinality({i \in 1..Len(acc) : FGeq(acc[i][2], x[2])})
         IN  SubSeq(acc, 1, p) \o <<x>> \o SubSeq(acc, p + 1, Len(acc))

\* Series.get(key, default)
Get(course, key, default) == IF key \in DOMAIN course THEN course[key] ELSE default

recommendation(course, similarity) ==
    [course_id |-> course.course_id,
     course_title |-> course.course_title,
     subject |-> course.subject,
     num_subscribers |-> course.num_subscribers,
     num_reviews |-> course.num_reviews,
     bayesian_popularity |->
        Get(course, "bayesian_popularity", Get(course, "popularity_score", Num(0))),
     confidence_level |-> Get(course, "confidence_level", "Unknown"),
     similarity_score |-> similarity]

\* the for loop over sim_scores from entry k on; error: df.iloc raised IndexError
RECURSIVE walk(_, _, _, _, _, _)
walk(d, sim_scores, n, min_reviews, k, recommendations) ==
    IF k > Len(sim_scores) THEN [error |-> FALSE, value |-> recommendations]
    ELSE IF sim_scores[k][1] > Len(d) THEN [error |-> TRUE, value |-> <<>>]
    ELSE LET course == d[sim_scores[k][1]]
             admitted == /\ course.num_reviews >= min_reviews
                         /\ ~Get(course, "is_suspicious", FALSE)
             recs == IF admitted
                     THEN Append(recommendations, recommendation(course, sim_scores[k][2]))
                     ELSE recommendations
         IN  IF Len(recs) >= n THEN [error |-> FALSE, value |-> recs]
             ELSE walk(d, sim_scores, n, min_reviews, k + 1, recs)

\* position of cosine_sim[idx]: numpy counts a negative idx from the end
NumpyPos(cs, idx) == IF idx >= 0 THEN idx + 1 ELSE Len(cs) + idx + 1

NoException == "none"

\* the elements a run renders; an error carries its label and the exception
\* formatted into it
st_error(label, e) == [widget |-> "st.error", label |-> label, exception |-> e]

st_warning(label) == [widget |-> "st.warning", label |-> label, exception |-> NoException]

\* the rows of a result: one st.container per recommendation, or st.dataframe
st_rows(widget, label) == [widget |-> widget, label |-> label, exception |-> NoException]

\* index[0], cosine_sim[idx] or df.iloc[score_idx] out of bounds
IndexError == "IndexError"

\* st.error(f"Error generating recommendations: {e}")
RecommendationsError == st_error("Error generating recommendations", IndexError)

(* The value returned and whether the except branch ran (st.error).  Every  *)
(* exception is caught inside, so none reaches the caller.                 *)
get_recommendations(course_id, d, cs, n, min_reviews) ==
    LET matches == {i \in 1..Len(d) : d[i].course_id = course_id}
        first == CHOOSE i \in matches : \A j \in matches : i <= j
        idx == d[first].index
        failed == [raised |-> NoException, value |-> <<>>, st_error |-> TRUE]
    IN  IF matches = {} THEN failed
        ELSE IF NumpyPos(cs, idx) \notin 1..Len(cs) THEN failed
        ELSE LET sim_scores == Tail(sorted(enumerate(cs[NumpyPos(cs, idx)])))
                 r == walk(d, sim_scores, n, min_reviews, 1, <<>>)
             IN  [raised |-> NoException, value |-> r.value, st_error |-> r.error]

----------------------------------------------------------------------------
(* The subject listing of the Recommendations page                         *)

SubjectTopN == 10

\* sorted(df['subject'].unique())
unique(d, col) == {d[i][col] : i \in 1..Len(d)}

(* The orders Series.sort_values(ascending=False) can leave the keys in:   *)
(* the default kind is quicksort, which numpy does not promise to be       *)
(* stable, so positions of equal keys come out in any order.               *)
sort_values_orders(keys) ==
    {p \in Permutations(1..Len(keys)) :
        \A k, l \in 1..Len(keys) : k < l => FGeq(keys[p[k]], keys[p[l]])}

(* DataFrame.nlargest(n, column), keep='first', on finite keys: the set of *)
(* frames the call can return.  With n >= len(frame) pandas sorts the      *)
(* column with sort_values and takes head(n); otherwise it selects the n   *)
(* largest keys, equal keys by first occurrence, ordered by a mergesort.   *)
nlargest(frame, n, column) ==
    LET keys == Column(frame, column)
        stable == sorted(enumerate(keys))
    IN  IF n <= 0 THEN {<<>>}
        ELSE IF n >= Len(frame)
        THEN {[k \in 1..Len(frame) |-> frame[p[k]]] : p \in sort_values_orders(keys)}
        ELSE {[k \in 1..n |-> frame[stable[k][1]]]}

\* df[(df['subject'] == subject) & (df['num_reviews'] >= min_subject_reviews)
\*    & (~df['is_suspicious'])]
filtered_subject(d, subject, min_subject_reviews) ==
    LET keep(row) == /\ row.subject = subject
                     /\ row.num_reviews >= min_subject_reviews
                     /\ ~row.is_suspicious
    IN  SelectSeq(d, keep)

----------------------------------------------------------------------------
(* Module startup: the try block of the script                            *)

(* enhance_dataframe raises ValueError on a DataFrame without rows:        *)
(* df.apply(..., axis=1) gives back an empty DataFrame with all the        *)
(* columns, which cannot be assigned to the one column                     *)
(* engagement_per_subscriber.                                              *)
enhance_raises(d) == Len(d) = 0

ColumnsLength == "ValueError: Columns must be same length as key"

\* psycopg2.connect or pd.read_sql_query failed
OperationalError == "OperationalError"

\* st.error(f"Database connection error: {e}") of the except branch
DatabaseConnectionError(e) == st_error("Database connection error", e)

(* The lines after load_data: enhance_dataframe, build_recommender (cache  *)
(* holds the st.cache_resource entries: the parameter is named _df, so it  *)
(* is not hashed and any entry is a hit), enhance_dataframe.               *)
(* ok = FALSE: the try block raised exception; st.error and st.stop follow. *)
(* df_raw, df and the cached DataFrame are given as the calls that took    *)
(* them as argument leave them.                                            *)
startup(raw, cache) ==
    IF enhance_raises(raw)
    THEN [ok |-> FALSE, exception |-> ColumnsLength, cache |-> cache,
          df_raw |-> raw, df |-> <<>>, cosine_sim |-> <<>>, df_rec |-> <<>>]
    ELSE LET d == enhance_dataframe(raw)
             built == IF cache # <<>> THEN [ok |-> TRUE] @@ cache[1]
                      ELSE build_recommender(d)
         IN  IF ~built.ok
             THEN [ok |-> FALSE, exception |-> EmptyVocabulary, cache |-> cache,
                   df_raw |-> enhance_dataframe_arg(raw), df |-> d,
                   cosine_sim |-> <<>>, df_rec |-> <<>>]
             ELSE [ok |-> TRUE, exception |-> NoException,
                   cache |-> <<[cosine_sim |-> built.cosine_sim,
                                df |-> enhance_dataframe_arg(built.df)]>>,
                   df_raw |-> enhance_dataframe_arg(raw),
                   df |-> IF cache # <<>> THEN d ELSE build_recommender_arg(d),
                   cosine_sim |-> built.cosine_sim,
                   df_rec |-> enhance_dataframe(built.df)]

----------------------------------------------------------------------------
(* Tables the specifications start from                                    *)

ScoreChoices == {Num(0), Frac(1, 4), Num(1)} \X {0, 1, 30}

ScoreRow(i, c) ==
    RawRow(CourseIdAt(i), <<"Python">>, <<"Web">>, 100, c[2],
           Frac(c[2], 100), c[1], c[1])

\* a table of len rows, row i built from choice c[i]
ScoreTable(len, c) == [i \in 1..len |-> ScoreRow(i, c[i])]

\* num_reviews, num_subscribers, review_rate as stored
EngagementChoices == {0, 49, 50} \X {0, 49, 50} \X {Num(0), Frac(99, 100), Num(1)}

EngagementRow(i, c) ==
    RawRow(CourseIdAt(i), <<"Python">>, <<"Web">>, c[2], c[1], c[3],
           Frac(1, 2), Frac(1, 2))

\* a table of len rows, row i built from choice c[i]
EngagementTable(len, c) == [i \in 1..len |-> EngagementRow(i, c[i])]

\* course_title, subject: terms python (twice) and web; python alone; none
ContentChoices ==
    {<<<<"Python">>, <<"python", "Web">>>>,
     <<<<"The", "Python">>, <<NULL>>>>,
     <<<<"The", "C">>, <<>>>>}

\* num_reviews, num_subscribers, review_rate: eligible, few reviews, suspicious
EligibilityChoices ==
    {<<20, 100, Frac(1, 5)>>, <<2, 100, Frac(1, 50)>>, <<20, 20, Num(1)>>}

CourseChoices == ContentChoices \X EligibilityChoices

CourseRow(i, c) ==
    RawRow(CourseIdAt(i), c[1][1], c[1][2], c[2][2], c[2][1], c[2][3],
           Frac(1, 2), Frac(1, 2))

\* a table of len rows, row i built from choice c[i]
CourseTable(len, c) == [i \in 1..len |-> CourseRow(i, c[i])]

MinReviewsChoices == {1, 5}

\* subject, popularity_score
SubjectChoices == {<<"Web">>, <<"python">>} \X {Frac(1, 4), Frac(1, 2)}

ListingChoices == SubjectChoices \X EligibilityChoices

ListingRow(i, c) ==
    RawRow(CourseIdAt(i), <<"Python">>, c[1][1], c[2][2], c[2][1], c[2][3],
           c[1][2], c[1][2])

\* a table of len rows, row i built from choice c[i]
ListingTable(len, c) == [i \in 1..len |-> ListingRow(i, c[i])]

\* values of the "Min Reviews" input of the subject listing
MinSubjectReviewsChoices == {1, 10}

AbsentId == CourseIdAt(0)

----------------------------------------------------------------------------
(* The functions under call: one call from the state a start leaves        *)

\* no script is running and no import either
NoApp ==
    /\ data_cache = <<>> /\ rec_cache = <<>> /\ importer = "idle"
    /\ df_raw = <<>> /\ df_rec = <<>> /\ cosine_sim = <<>>
    /\ shown = {}

\* the script has run its try block on table t, from empty caches
Started(t) ==
    \E raw \in {read_sql_query(t)} : \E s \in {startup(raw, <<>>)} :
        /\ s.ok
        /\ table = t
        /\ data_cache = <<raw>>
        /\ rec_cache = s.cache
        /\ importer = "idle"
        /\ df_raw = s.df_raw
        /\ df = s.df
        /\ df_rec = s.df_rec
        /\ cosine_sim = s.cosine_sim
        /\ call = <<>>
        /\ ret = <<>>
        /\ shown = {}

FunctionFrame ==
    UNCHANGED <<table, data_cache, rec_cache, importer, df_raw, df, df_rec,
                cosine_sim>>

CallConfidenceLevel ==
    /\ pc = "call"
    /\ ret' = calculate_confidence_level(call.num_reviews)
    /\ pc' = "done"
    /\ UNCHANGED <<call, shown>>
    /\ FunctionFrame

InitConfidence ==
    /\ pc = "call"
    /\ \E k \in 0..MaxReviewCount : call = [num_reviews |-> k]
    /\ table = <<>> /\ df = <<>> /\ ret = <<>>
    /\ NoApp

SpecConfidence == InitConfidence /\ [][CallConfidenceLevel]_vars

CallBayesianAverage ==
    /\ pc = "call"
    /\ ret' = calculate_bayesian_average(df, "popularity_score", "num_reviews",
                                         call.min_reviews)
    /\ pc' = "done"
    /\ UNCHANGED <<call, shown>>
    /\ FunctionFrame

InitBayes ==
    /\ pc = "call"
    /\ \E len \in 0..MaxRows : \E c \in [1..len -> ScoreChoices] :
        /\ table = ScoreTable(len, c)
        /\ df = read_sql_query(ScoreTable(len, c))
    /\ \E m \in -1..MaxMinEvidence : call = [min_reviews |-> m]
    /\ ret = <<>>
    /\ NoApp

SpecBayes == InitBayes /\ [][CallBayesianAverage]_vars

\* the call returns the enhanced copy, or raises on a DataFrame without rows
CallEnhance ==
    /\ pc = "call"
    /\ IF enhance_raises(df)
       THEN pc' = "raised" /\ ret' = [exception |-> "ValueError"]
       ELSE pc' = "done" /\ ret' = enhance_dataframe(df)
    /\ df' = enhance_dataframe_arg(df)
    /\ UNCHANGED <<table, data_cache, rec_cache, importer, df_raw, df_rec, cosine_sim,
                   call, shown>>

InitEnhance ==
    /\ pc = "call"
    /\ \E len \in 0..MaxRows : \E c \in [1..len -> EngagementChoices] :
        /\ table = EngagementTable(len, c)
        /\ df = read_sql_query(EngagementTable(len, c))
    /\ call = <<>> /\ ret = <<>>
    /\ NoApp

SpecEnhance == InitEnhance /\ [][CallEnhance]_vars

CallGetRecommendations ==
    /\ pc = "ready"
    /\ \E id \in {df_rec[i].course_id : i \in 1..Len(df_rec)} \cup {AbsentId},
          n \in 0..MaxN, min_reviews \in MinReviewsChoices :
        \E r \in {get_recommendations(id, df_rec, cosine_sim, n, min_reviews)} :
            /\ call' = [course_id |-> id, n |-> n, min_reviews |-> min_reviews]
            /\ ret' = [raised |-> r.raised, value |-> r.value]
            /\ shown' = IF r.st_error THEN {RecommendationsError} ELSE {}
    /\ pc' = "done"
    /\ FunctionFrame

InitRec ==
    /\ pc = "ready"
    /\ \E len \in 1..MaxRows : \E c \in [1..len -> CourseChoices] :
        Started(CourseTable(len, c))

SpecRec == InitRec /\ [][CallGetRecommendations]_vars

\* df[mask]: the rows at the positions kept, each under the label it had
boolean_mask(d, keep) ==
    LET RECURSIVE from(_)
        from(k) == IF k > Len(d) THEN <<>>
                   ELSE (IF k \in keep THEN <<d[k]>> ELSE <<>>) \o from(k + 1)
    IN  from(1)

\* content of the rows of a view; every row is eligible
ViewChoices == ContentChoices \X {<<20, 100, Frac(1, 5)>>}

(* get_recommendations on the index of a dataset view: some rows of the    *)
(* loaded table, enhanced, indexed by build_recommender and enhanced again *)
InitView ==
    /\ pc = "ready"
    /\ \E len \in 1..MaxRows : \E c \in [1..len -> ViewChoices] :
        \E keep \in SUBSET (1..len) \ {{}} :
        \E raw \in {read_sql_query(CourseTable(len, c))} :
        \E s \in {startup(boolean_mask(raw, keep), <<>>)} :
            /\ s.ok
            /\ table = CourseTable(len, c)
            /\ df_raw = raw
            /\ df = s.df
            /\ df_rec = s.df_rec
            /\ cosine_sim = s.cosine_sim
    /\ data_cache = <<>> /\ rec_cache = <<>> /\ importer = "idle"
    /\ call = <<>> /\ ret = <<>> /\ shown = {}

SpecView == InitView /\ [][CallGetRecommendations]_vars

----------------------------------------------------------------------------
(* The Streamlit app and the import script.  The script runs from the top  *)
(* on every interaction; the two caches outlive the runs and are emptied   *)
(* together by Streamlit's "Clear cache" command, whenever it is given.    *)

MaxAppRows == 2

AppChoices ==
    {c \in CourseChoices : c[1][1] # <<"The", "Python">> /\ c[2][1] = 20 /\ c[2][2] = 100}

TopNShown == 10

\* load_data(), a st.cache_data function without arguments
LoadData ==
    /\ pc = "start"
    /\ IF data_cache # <<>>
       THEN df_raw' = data_cache[1] /\ UNCHANGED data_cache
       ELSE df_raw' = read_sql_query(table) /\ data_cache' = <<read_sql_query(table)>>
    /\ pc' = "loaded"
    /\ UNCHANGED <<table, rec_cache, importer, df, df_rec, cosine_sim, call, ret, shown>>

\* load_data() raises: the connection or the query failed
LoadDataFails ==
    /\ pc = "start"
    /\ data_cache = <<>>
    /\ pc' = "stopped"
    /\ shown' = {DatabaseConnectionError(OperationalError)}
    /\ UNCHANGED <<table, data_cache, rec_cache, importer, df_raw, df, df_rec,
                   cosine_sim, call, ret>>

\* the rest of the try block, and its except branch
StartupRest ==
    /\ pc = "loaded"
    /\ \E s \in {startup(df_raw, rec_cache)} :
        /\ rec_cache' = s.cache
        /\ df_raw' = s.df_raw
        /\ df' = s.df
        /\ cosine_sim' = s.cosine_sim
        /\ df_rec' = s.df_rec
        /\ pc' = IF s.ok THEN "ready" ELSE "stopped"
        /\ shown' = IF s.ok THEN {} ELSE {DatabaseConnectionError(s.exception)}
    /\ UNCHANGED <<table, data_cache, importer, call, ret>>

\* the Recommendations page with "Get Recommendations" pressed
Recommend ==
    /\ pc = "ready"
    /\ \E selected_course \in {df[i].course_title : i \in 1..Len(df)},
          min_reviews_filter \in MinReviewsChoices :
        \E first \in {CHOOSE i \in 1..Len(df) :
                        /\ df[i].course_title = selected_course
                        /\ \A j \in 1..(i - 1) : df[j].course_title # selected_course} :
        \E r \in {get_recommendations(df[first].course_id, df_rec, cosine_sim,
                                      TopNShown, min_reviews_filter)} :
            /\ call' = [course_id |-> df[first].course_id, n |-> TopNShown,
                        min_reviews |-> min_reviews_filter]
            /\ ret' = [raised |-> r.raised, value |-> r.value]
            /\ shown' = (IF r.st_error THEN {RecommendationsError} ELSE {})
                            \cup (IF r.value = <<>>
                                  THEN {st_warning("No recommendations found")}
                                  ELSE {st_rows("st.container", "Recommended Similar Courses")})
    /\ pc' = "served"
    /\ UNCHANGED <<table, data_cache, rec_cache, importer, df_raw, df, df_rec,
                   cosine_sim>>

\* the Recommendations page, "Or explore by subject"
TopInSubject ==
    /\ pc = "ready"
    /\ \E subject \in unique(df, "subject"),
          min_subject_reviews \in MinSubjectReviewsChoices :
        \E top_in_subject \in nlargest(filtered_subject(df, subject, min_subject_reviews),
                                       SubjectTopN, "bayesian_popularity") :
            /\ call' = [subject |-> subject, min_reviews |-> min_subject_reviews]
            /\ ret' = [raised |-> NoException, value |-> top_in_subject]
            /\ shown' = IF Len(top_in_subject) > 0
                        THEN {st_rows("st.dataframe", "Top 10 courses in subject")}
                        ELSE {st_warning("No courses found")}
    /\ pc' = "listed"
    /\ UNCHANGED <<table, data_cache, rec_cache, importer, df_raw, df, df_rec,
                   cosine_sim>>

InitSubject ==
    /\ pc = "ready"
    /\ \E len \in 1..MaxRows : \E c \in [1..len -> ListingChoices] :
        Started(ListingTable(len, c))

SpecSubject == InitSubject /\ [][TopInSubject]_vars

\* an interaction starts the script again
Rerun ==
    /\ pc \in {"ready", "served", "listed", "stopped"}
    /\ pc' = "start"
    /\ df_raw' = <<>> /\ df' = <<>> /\ df_rec' = <<>> /\ cosine_sim' = <<>>
    /\ call' = <<>> /\ ret' = <<>> /\ shown' = {}
    /\ UNCHANGED <<table, data_cache, rec_cache, importer>>

\* "Clear cache": st.cache_data and st.cache_resource entries are dropped
ClearCache ==
    /\ data_cache # <<>> \/ rec_cache # <<>>
    /\ data_cache' = <<>>
    /\ rec_cache' = <<>>
    /\ UNCHANGED <<table, importer, pc, df_raw, df, df_rec, cosine_sim, call, ret, shown>>

\* run_data_import.py: TRUNCATE TABLE udemy_courses, committed
ImportTruncate ==
    /\ importer = "idle"
    /\ table' = <<>>
    /\ importer' = "truncated"
    /\ UNCHANGED <<data_cache, rec_cache, pc, df_raw, df, df_rec, cosine_sim, call,
                   ret, shown>>

\* run_data_import.py: df_final.to_sql(..., if_exists='append')
ImportAppend ==
    /\ importer = "truncated"
    /\ \E len \in 1..MaxAppRows : \E c \in [1..len -> AppChoices] :
        table' = CourseTable(len, c)
    /\ importer' = "idle"
    /\ UNCHANGED <<data_cache, rec_cache, pc, df_raw, df, df_rec, cosine_sim, call,
                   ret, shown>>

\* run_data_import.py: to_sql raised, the script prints the error and exits
ImportFails ==
    /\ importer = "truncated"
    /\ importer' = "idle"
    /\ UNCHANGED <<table, data_cache, rec_cache, pc, df_raw, df, df_rec, cosine_sim,
                   call, ret, shown>>

Init ==
    /\ \E len \in 1..MaxAppRows : \E c \in [1..len -> AppChoices] :
        table = CourseTable(len, c)
    /\ pc = "start"
    /\ df = <<>> /\ call = <<>> /\ ret = <<>>
    /\ NoApp

Next ==
    \/ LoadData
    \/ LoadDataFails
    \/ StartupRest
    \/ Recommend
    \/ TopInSubject
    \/ Rerun
    \/ ClearCache
    \/ ImportTruncate
    \/ ImportAppend
    \/ ImportFails

Spec == Init /\ [][Next]_vars

\* rows with 20 reviews: two subjects, two popularity scores, suspicious or not
FrameChoices ==
    {<<<<<<"Web">>, Frac(1, 4)>>, <<20, 100, Frac(1, 5)>>>>,
     <<<<<<"Web">>, Frac(1, 2)>>, <<20, 20, Num(1)>>>>,
     <<<<<<"python">>, Frac(1, 2)>>, <<20, 100, Frac(1, 5)>>>>,
     <<<<<<"python">>, Frac(1, 4)>>, <<20, 20, Num(1)>>>>}

(* One run from load_data's result on: the rest of the try block, then a   *)
(* call of get_recommendations on what it built.                           *)
InitFrame ==
    /\ pc = "loaded"
    /\ \E len \in 1..MaxRows : \E c \in [1..len -> FrameChoices] :
        /\ table = ListingTable(len, c)
        /\ data_cache = <<read_sql_query(ListingTable(len, c))>>
        /\ df_raw = read_sql_query(ListingTable(len, c))
    /\ rec_cache = <<>> /\ importer = "idle"
    /\ df = <<>> /\ df_rec = <<>> /\ cosine_sim = <<>>
    /\ call = <<>> /\ ret = <<>> /\ shown = {}

NextFrame == StartupRest \/ CallGetRecommendations

SpecFrame == InitFrame /\ [][NextFrame]_vars

----------------------------------------------------------------------------
(* Properties of get_recommendations, under SpecRec                        *)

Returned == pc = "done"

CourseIds(d) == {d[i].course_id : i \in 1..Len(d)}

\* position in d of the row with this course id
RowOf(d, id) == CHOOSE i \in 1..Len(d) : d[i].course_id = id

ReturnedIds == {ret.value[k].course_id : k \in 1..Len(ret.value)}

\* C1: the result of get_recommendations never contains the query course
C1_QueryCourseExcluded == Returned => call.course_id \notin ReturnedIds

\* C2: the result of get_recommendations has at most n (topN) entries
C2_AtMostTopN == Returned => Len(ret.value) <= call.n

\* the return value of a successful call that admitted no candidate
EmptySuccess == [raised |-> NoException, value |-> <<>>]

\* C3: a call with a course id absent from the dataset view fails with NotFound,
\* an outcome the caller can tell from the successful empty result
C3_AbsentIsNotFound ==
    (Returned /\ call.course_id \notin CourseIds(df_rec))
        => (ret.raised = "NotFound" /\ ret # EmptySuccess)

Eligible(course, min_reviews) ==
    course.num_reviews >= min_reviews /\ ~course.is_suspicious

FirstN(s, n) == SubSeq(s, 1, IF Len(s) < n THEN Len(s) ELSE n)

\* the first n eligible candidates of the sorted list without the query course
ExpectedRecommendations(id, d, cs, n, min_reviews) ==
    LET q == RowOf(d, id)
        NotQuery(e) == e[1] # q
        Admit(e) == Eligible(d[e[1]], min_reviews)
        admitted == SelectSeq(SelectSeq(sorted(enumerate(cs[q])), NotQuery), Admit)
    IN  [k \in 1..Len(FirstN(admitted, n)) |->
            recommendation(d[admitted[k][1]], admitted[k][2])]

\* C4: the result is exactly the first n eligible candidates, in sorted order, of
\* the candidate list without the query course
C4_FirstEligibleCandidates ==
    (Returned /\ call.course_id \in CourseIds(df_rec))
        => ret.value = ExpectedRecommendations(call.course_id, df_rec, cosine_sim,
                                               call.n, call.min_reviews)

\* entries k < l of a result are in order: similarity not increasing, and on
\* equal similarity the dataset row of k before the dataset row of l
InOrder(value, d) ==
    \A k, l \in 1..Len(value) :
        k < l =>
            /\ FGeq(value[k].similarity_score, value[l].similarity_score)
            /\ value[k].similarity_score = value[l].similarity_score
                => RowOf(d, value[k].course_id) < RowOf(d, value[l].course_id)

\* C5: the entries returned are ordered by similarity descending, and entries of
\* equal similarity appear in their dataset row order
C5_SortedStable == Returned => InOrder(ret.value, df_rec)

\* a result whose two entries tie on a similarity above 0
C5_Witness ==
    /\ Returned
    /\ Len(ret.value) = 2
    /\ ret.value[1].similarity_score = ret.value[2].similarity_score
    /\ ret.value[1].similarity_score # Num(0)

\* C9: the similarity matrix is symmetric and every diagonal entry is 1
C9_SymmetricUnitDiagonal ==
    \A i, j \in 1..Len(cosine_sim) :
        cosine_sim[i][j] = cosine_sim[j][i] /\ cosine_sim[i][i] = Num(1)

\* C12: out-of-range configuration is rejected with InvalidParameter; for
\* get_recommendations, a call with n = 0 for a course of the dataset view does
\* not return a result, it fails with InvalidParameter
C12_ZeroTopNRejected ==
    (Returned /\ call.n = 0 /\ call.course_id \in CourseIds(df_rec))
        => ret.raised = "InvalidParameter"

\* the rows of d that qualify for the listing, in dataset row order
Qualifying(d, subject, min_reviews) ==
    LET Q(row) == row.subject = subject /\ Eligible(row, min_reviews)
    IN  SelectSeq(d, Q)

\* s ordered by bayesian popularity descending, equal scores in the order of s
ByPopularity(s) ==
    LET order == sorted(enumerate(Column(s, "bayesian_popularity")))
    IN  [k \in 1..Len(s) |-> s[order[k][1]]]

ByPosition(id, d, cs, n, min_reviews) ==
    walk(d, Tail(sorted(enumerate(cs[RowOf(d, id)]))), n, min_reviews, 1, <<>>).value

\* C15: for a course id present in the dataset view, get_recommendations works
\* from the similarity row at the course's row position and from the dataset
\* rows at the candidates' column positions, whatever labels the view's index
\* carries (under SpecView)
C15_RowsByPosition ==
    (Returned /\ call.course_id \in CourseIds(df_rec))
        => /\ ret.value = ByPosition(call.course_id, df_rec, cosine_sim, call.n,
                                     call.min_reviews)
           /\ shown = {}

----------------------------------------------------------------------------
(* Properties of the scoring functions                                     *)

Between(x, a, b) == (FGeq(x, a) /\ FGeq(b, x)) \/ (FGeq(x, b) /\ FGeq(a, x))

\* C6: for min_reviews >= 0 every adjusted score is a defined number between the
\* row's raw score and the mean of the raw score over the dataset, inclusive
\* (under SpecBayes)
C6_BetweenRawAndMean ==
    (Returned /\ call.min_reviews >= 0) =>
        \A i \in 1..Len(df) :
            /\ IsFinite(ret[i])
            /\ Between(ret[i], df[i].popularity_score,
                       Mean(Column(df, "popularity_score")))

\* engagement rate recomputed from the counts >= 0.99 and subscribers < 50
SuspiciousByCounts(row) ==
    /\ FGeq(engagement_per_subscriber(row), SuspiciousRate)
    /\ row.num_subscribers < SuspiciousSubscribers

\* C7: is_suspicious is true iff the engagement rate recomputed from the row's
\* counts is >= 0.99 and the subscriber count is < 50 (under SpecEnhance)
C7_SuspiciousIffRecomputed ==
    Returned => \A i \in 1..Len(df) : ret[i].is_suspicious <=> SuspiciousByCounts(df[i])

\* C8: High for counts >= 100, Medium for 20..99, Low for 5..19, Very Low for 0..4
\* (under SpecConfidence)
C8_ConfidenceTable ==
    Returned =>
        /\ ret = "High" <=> call.num_reviews >= 100
        /\ ret = "Medium" <=> call.num_reviews \in 20..99
        /\ ret = "Low" <=> call.num_reviews \in 5..19
        /\ ret = "Very Low" <=> call.num_reviews \in 0..4

\* the boundary count 99 was mapped, to Medium
C8_Witness == Returned /\ call.num_reviews = 99 /\ ret = "Medium"

\* the call ended by raising an exception to its caller
Raised == pc = "raised"

\* C11: calculate_bayesian_average called on a dataset without rows does not
\* return: it fails, with InsufficientData (under SpecBayes)
C11_EmptyIsInsufficientData ==
    (pc # "call" /\ Len(df) = 0) => (Raised /\ ret.exception = "InsufficientData")

\* calculate_bayesian_average called on a dataset with rows and a negative
\* min_reviews does not return: it fails, with InvalidParameter (under SpecBayes)
NegativeMinEvidenceRejected ==
    (pc # "call" /\ Len(df) > 0 /\ call.min_reviews < 0)
        => (Raised /\ ret.exception = "InvalidParameter")

----------------------------------------------------------------------------
(* Properties of the app, under Spec                                       *)

\* the index and the dataset view a start from empty caches builds for d
FreshIndex(d) ==
    LET built == build_recommender(d)
    IN  [cosine_sim |-> built.cosine_sim, df_rec |-> enhance_dataframe(built.df)]

\* C10: a query is served with the similarity index and the dataset view built
\* from the dataset that load_data yielded to the run
C10_IndexOfCurrentDataset ==
    pc = "served" =>
        [cosine_sim |-> cosine_sim, df_rec |-> df_rec] = FreshIndex(df)

\* every content string of the dataset is without a vocabulary term
EmptyCorpus(d) == \A i \in 1..Len(d) : analyze(content(d[i])) = <<>>

\* C14: when no course of the loaded dataset yields a vocabulary term, the run
\* gets no index out of build_recommender: it ends its startup stopped, without
\* an index, showing an error that carries the empty-vocabulary failure and is
\* not labelled as a database connection error; the process goes on (a rerun is
\* possible)
C14_EmptyCorpusReported ==
    (pc \in {"ready", "served", "listed", "stopped"} /\ Len(df_raw) > 0
        /\ EmptyCorpus(df_raw))
        => /\ pc = "stopped"
           /\ cosine_sim = <<>>
           /\ \E m \in shown :
                /\ m.widget = "st.error"
                /\ m.exception = EmptyVocabulary
                /\ m.label # "Database connection error"
           /\ ENABLED Rerun

\* C17: what load_data reads while the import script runs is a complete
\* dataset, the previous or the new one, never an empty table; and when the
\* import script is not running, whether it finished or failed, a dataset is
\* stored (a table of the model is either empty or a whole dataset)
C17_ReaderSeesCompleteDataset ==
    /\ pc = "loaded" => Len(df_raw) > 0
    /\ importer = "idle" => Len(table) > 0

----------------------------------------------------------------------------
(* Properties of the startup and its calls, under SpecFrame                *)

\* the fields enhance_dataframe derives
DerivedFields(row) ==
    [bayesian_popularity |-> row.bayesian_popularity,
     bayesian_quality |-> row.bayesian_quality,
     confidence_level |-> row.confidence_level,
     engagement_per_subscriber |-> row.engagement_per_subscriber,
     is_suspicious |-> row.is_suspicious]

\* C16: enhance_dataframe, build_recommender and get_recommendations leave the
\* dataset and the matrix given to them as they were: after the startup df_raw is
\* still the table as read, df the one enrichment of it, the cached frame and the
\* matrix what build_recommender returned, and a call of get_recommendations
\* changes none of them; the second enrichment gives every row of df_rec the
\* derived fields the first gave the same row of df, and a further one changes
\* nothing
C16_ArgumentsKeptEnrichmentIdempotent ==
    pc \in {"ready", "done"} =>
        /\ df_raw = read_sql_query(table)
        /\ df = enhance_dataframe(read_sql_query(table))
        /\ \E built \in {build_recommender(df)} :
            /\ rec_cache = <<[cosine_sim |-> built.cosine_sim, df |-> built.df]>>
            /\ cosine_sim = built.cosine_sim
        /\ Len(df_rec) = Len(df)
        /\ \A i \in 1..Len(df) :
            /\ DerivedFields(df_rec[i]) = DerivedFields(df[i])
            /\ df_rec[i] = [content |-> content(df[i])] @@ df[i]
        /\ enhance_dataframe(df_rec) = df_rec

\* get_recommendations has returned entries from a dataset in which the
\* enrichment moved a score away from the raw one and flagged a row
C16_Witness ==
    /\ pc = "done"
    /\ Len(ret.value) > 0
    /\ \E i \in 1..Len(df_rec) : df_rec[i].bayesian_popularity # df_rec[i].popularity_score
    /\ \E i \in 1..Len(df_rec) : df_rec[i].is_suspicious

====
